---- MODULE Spec2Model ----
(***************************************************************************)
(* A model of lib/BufferedBulkStream.js: a Writable stream in object mode  *)
(* that buffers "index" commands, ships them to client.bulk in batches,    *)
(* throttles the producer while too many bulk requests are active, and     *)
(* re-queues the items the cluster answers with 503.                       *)
(*                                                                         *)
(* One action per handler the event loop can run: _write (a submission),   *)
(* the inactivity timer, the 'end' listener and the client.bulk callback.  *)
(* The two module-level globals of the file, resumeFunction (line 37) and  *)
(* writeBufferTotal (line 90, assigned without var), are single variables  *)
(* shared by every instance of the process.                                *)
(***************************************************************************)
EXTENDS Integers, Sequences, FiniteSets, TLC

VARIABLES
  instances,         \* the BufferedBulkStream objects constructed in this process
  buffer,            \* this.buffer: flat array, action descriptor then document
  flooding,          \* this.flooding
  options,           \* this.options: [buffer, throttle]
  stats,             \* this.stats
  timeout,           \* this.timeout: the inactivity timer
  resumeFunction,    \* module global: the next callback of the latest _write
  writeBufferTotal,  \* implicit global: pair count of the latest flushed batch
  calls,             \* client.bulk requests whose callback has not run yet
  writing,           \* Writable state: a _write whose next was not called yet
  ncalls,            \* how often the next of the latest _write was invoked
  thrown,            \* an exception escaped _write
  ended,             \* the 'end' listener has run
  emittedErrors,     \* 'error' events emitted by the latest handler, in order
  emittedStats,      \* 'stats' events emitted by the latest handler, in order
  invoked,           \* streams whose next callback the latest handler invoked
  reported,          \* per stream, the latest 'stats' event it emitted, if any
  last               \* the handler that ran last: its stream and its arguments

vars == <<instances, buffer, flooding, options, stats, timeout, resumeFunction,
          writeBufferTotal, calls, writing, ncalls, thrown, ended,
          emittedErrors, emittedStats, invoked, reported, last>>

----------------------------------------------------------------------------
(* Bounds of the model *)

\* a chunk is written only while stats.ok + stats.error of its stream is below this
MaxWrites == 2
\* 503 re-queues per stream
MaxRetries == 2
\* Math.random() > 0.9 raises the throttle up to this value
MaxThrottle == 22
\* the same bound where three submissions are needed
WideWrites == 3
\* the same bound where two streams share the process
TwoWrites == 1
\* the same bound where more requests are active than the throttle floor
DeepWrites == 23

Streams == {1, 2}

----------------------------------------------------------------------------
(* JavaScript values *)

Undefined == "undefined"

\* !v, for the values a field of a chunk ranges over here: undefined or a string
Falsy(v) == v \in {Undefined, ""}

JSValue(t, i, ty, id, d) == [t |-> t, _index |-> i, _type |-> ty, _id |-> id, data |-> d]

\* a value that is no plain object: null, an array, a number, a string
Plain(t) == JSValue(t, Undefined, Undefined, Undefined, Undefined)

\* typeof v
TypeOf(v) == IF v.t \in {"object", "null", "array"} THEN "object" ELSE v.t

\* A chunk handed to _write: a value, or a string (enc = "text": the JSON
\* encoding of v; enc = "garbage": a string that is no JSON).
ChunkOf(enc, v) == [enc |-> enc, v |-> v]

\* a buffer element: the action descriptor { index: { _index, _type, _id } }
Descriptor(record) ==
  [kind |-> "index", _index |-> record._index, _type |-> record._type,
   _id |-> record._id, data |-> Undefined]

\* a buffer element: the document, record.data
Document(record) ==
  [kind |-> "doc", _index |-> Undefined, _type |-> Undefined,
   _id |-> Undefined, data |-> record.data]

\* null, where a document is expected
NullDocument ==
  [kind |-> "null", _index |-> Undefined, _type |-> Undefined,
   _id |-> Undefined, data |-> Undefined]

\* an 'error' event: a plain string, or an IndexError( message, document, item );
\* item is <<>> for null and <<status>> for a response item
ErrorString(msg) ==
  [cls |-> "string", message |-> msg, document |-> NullDocument, item |-> <<>>]

IndexError(msg, doc, item) ==
  [cls |-> "IndexError", message |-> msg, document |-> doc, item |-> item]

----------------------------------------------------------------------------
(* Program constants *)

\* the initial resumeFunction, function(){}
NoOp == 0
\* batch: the throttle never settles below 20
ThrottleFloor == 20
\* batch: a response with failures lowers the throttle by 2
ThrottleStep == 2
\* item.index.status values the code names
Updated == 200
Created == 201
BadRequest == 400
Unavailable == 503

Min(a, b) == IF a < b THEN a ELSE b

----------------------------------------------------------------------------
(* parseChunk *)

\* JSON.parse( chunk.toString() ): a text decodes to the value it encodes,
\* anything else is a SyntaxError
JSONParses(chunk) == chunk.enc = "text"


\* a slip: the type is looked at before the index
ValidationErrorTypeFirst(v) ==
  IF Falsy(v._type) THEN "invalid type specified"
  ELSE IF Falsy(v._index) THEN "invalid index specified"
  ELSE IF Falsy(v._id) THEN "invalid id specified"
  ELSE ""

\* the first missing field decides the message: index, then type, then id
ValidationError(v) ==
  IF Falsy(v._index) THEN "invalid index specified"
  ELSE IF Falsy(v._type) THEN "invalid type specified"
  ELSE IF Falsy(v._id) THEN "invalid id specified"
  ELSE ""

\* [record, ok, errors, throws]: ok tells whether a record is returned; throws
\* is the TypeError of reading a property of null
parseChunk(chunk) ==
  IF chunk.enc # "value" /\ ~JSONParses(chunk)
  THEN [ok |-> FALSE, record |-> chunk.v, throws |-> FALSE,
        errors |-> <<ErrorString("failed to parse JSON chunk")>>]
  ELSE LET v == chunk.v IN
    IF TypeOf(v) = "object"
    THEN IF v.t = "null"
         THEN [ok |-> FALSE, record |-> v, throws |-> TRUE, errors |-> <<>>]
         ELSE IF ValidationError(v) # ""
              THEN [ok |-> FALSE, record |-> v, throws |-> FALSE,
                    errors |-> <<ErrorString(ValidationError(v))>>]
              ELSE [ok |-> TRUE, record |-> v, throws |-> FALSE, errors |-> <<>>]
    ELSE [ok |-> FALSE, record |-> v, throws |-> FALSE,
          errors |-> <<ErrorString("invalid bulk API message")>>]

----------------------------------------------------------------------------
(* batch, emitStats, flush *)

\* this.options after batch( hasFailures ); rnd is Math.random() > 0.9
batch(opts, hasFailures, rnd) ==
  IF hasFailures
  THEN LET t == opts.throttle - ThrottleStep
       IN [opts EXCEPT !.throttle = IF t < ThrottleFloor THEN ThrottleFloor ELSE t]
  ELSE IF rnd THEN [opts EXCEPT !.throttle = @ + 1]
  ELSE opts

\* the payload of the 'stats' event
emitStats(st) ==
  [written |-> st.written - st.retries,
   indexed |-> st.inserted,
   errored |-> st.error,
   retries |-> st.retries,
   active_requests |-> st.active_requests,
   queued |-> st.written - st.inserted - st.error - st.retries]

\* the two early returns of flush
BufferNotFull(this, force) ==
  \/ Len(this.buffer) < 2
  \/ ~force /\ Len(this.buffer) < 2 * this.options.buffer


\* a slip: splice( 0, this.options.buffer ), elements counted as pairs
SpliceCountElements(this) == Min(Len(this.buffer), this.options.buffer)

\* the deleteCount of this.buffer.splice( 0, this.options.buffer * 2 )
SpliceCount(this) == Min(Len(this.buffer), this.options.buffer * 2)

\* flood control backoff
Backoff(this) ==
  IF this.stats.active_requests >= this.options.throttle THEN TRUE ELSE this.flooding

\* flush( force ) up to the call of client.bulk and the closing emitStats:
\* the object after it, the global writeBufferTotal, the body handed to
\* client.bulk (<<>> when nothing was sent) and the stats events emitted
flush(this, wbt, force) ==
  IF BufferNotFull(this, force)
  THEN [this |-> this, writeBufferTotal |-> wbt, bulk |-> <<>>, stats |-> <<>>]
  ELSE LET n == SpliceCount(this)
           writeBuffer == SubSeq(this.buffer, 1, n)
           total == Len(writeBuffer) \div 2
           t1 == [this EXCEPT !.buffer = SubSeq(this.buffer, n + 1, Len(this.buffer)),
                              !.stats.written = @ + total,
                              !.stats.active_requests = @ + 1]
           t2 == [t1 EXCEPT !.flooding = Backoff(t1)]
       IN [this |-> t2, writeBufferTotal |-> total, bulk |-> <<writeBuffer>>,
           stats |-> <<emitStats(t2.stats)>>]

----------------------------------------------------------------------------
(* validateBulkResponse *)

\* the keys of responseCodes in for-in order: integer keys ascend
RECURSIVE CodesInOrder(_)
CodesInOrder(S) ==
  IF S = {} THEN <<>>
  ELSE LET m == CHOOSE x \in S : \A y \in S : x <= y
       IN <<m>> \o CodesInOrder(S \ {m})

\* responseCodes[ code ]: the positions (from 0) of the items with this status
responseCodes(items, code) ==
  SelectSeq([i \in 1..Len(items) |-> i - 1], LAMBDA p : items[p + 1] = code)

\* some item has status 503
hasFailures(items) == \E i \in 1..Len(items) : items[i] = Unavailable

\* the pair of position i, as the 503 branch pushes it back
RetryPair(writeBuffer, i) == <<writeBuffer[i * 2 + 1], writeBuffer[i * 2 + 2]>>


\* a slip: the pairs are pushed back last position first
RECURSIVE RetryPairsReversed(_, _)
RetryPairsReversed(writeBuffer, pos) ==
  IF pos = <<>> THEN <<>>
  ELSE RetryPairsReversed(writeBuffer, Tail(pos)) \o RetryPair(writeBuffer, Head(pos))

RECURSIVE RetryPairs(_, _)
RetryPairs(writeBuffer, pos) ==
  IF pos = <<>> THEN <<>>
  ELSE RetryPair(writeBuffer, Head(pos)) \o RetryPairs(writeBuffer, Tail(pos))

\* the document of position i, as the error branches read it
DocumentAt(writeBuffer, i) == writeBuffer[i * 2 + 2]


\* a slip: a rejected document is pushed back like a 503
BranchRetriesRejected(code) ==
  IF code = Updated \/ code = Created THEN "inserted"
  ELSE IF code = Unavailable \/ code = BadRequest THEN "retry"
  ELSE "unknown"

\* which branch of the for-in loop a status code takes
Branch(code) ==
  IF code = Updated \/ code = Created THEN "inserted"
  ELSE IF code = Unavailable THEN "retry"
  ELSE IF code = BadRequest THEN "error"
  ELSE "unknown"

\* one iteration of the for-in loop; acc is [this, errors]
ClassifyCode(acc, writeBuffer, items, code) ==
  LET pos == responseCodes(items, code)
      errs(msg) ==
        [k \in 1..Len(pos) |->
           IndexError(msg, DocumentAt(writeBuffer, pos[k]), <<items[pos[k] + 1]>>)]
  IN CASE Branch(code) = "inserted" ->
            [acc EXCEPT !.this.stats.inserted = @ + Len(pos)]
       [] Branch(code) = "retry" ->
            [acc EXCEPT !.this.buffer = @ \o RetryPairs(writeBuffer, pos),
                        !.this.stats.retries = @ + Len(pos)]
       [] Branch(code) = "error" ->
            [acc EXCEPT !.this.stats.error = @ + Len(pos),
                        !.errors = @ \o errs("resp.items[i].index.error")]
       [] OTHER ->
            [acc EXCEPT !.this.stats.error = @ + Len(pos),
                        !.errors = @ \o errs("unknown response code")]

RECURSIVE ClassifyAll(_, _, _, _)
ClassifyAll(acc, writeBuffer, items, codes) ==
  IF codes = <<>> THEN acc
  ELSE ClassifyAll(ClassifyCode(acc, writeBuffer, items, Head(codes)),
                   writeBuffer, items, Tail(codes))

\* validateBulkResponse( writeBuffer, resp ): [this, errors] after it
validateBulkResponse(this, writeBuffer, items, rnd) ==
  LET t1 == [this EXCEPT !.options = batch(@, hasFailures(items), rnd)]
  IN ClassifyAll([this |-> t1, errors |-> <<>>], writeBuffer, items,
                 CodesInOrder({items[i] : i \in 1..Len(items)}))

----------------------------------------------------------------------------
(* The objects and the handlers *)

\* the record of a handler run: chunk for _write; body and res, the request
\* and its answer, for the bulk callback
NoChunk == ChunkOf("none", Plain("undefined"))
NoResult == [err |-> FALSE, resp |-> "none", items |-> <<>>]
Ran(op, self, chunk, body, res) ==
  [op |-> op, self |-> self, chunk |-> chunk, body |-> body, res |-> res]

\* the fields of one stream, as the methods read them through this
This(self) ==
  [buffer |-> buffer[self], flooding |-> flooding[self],
   options |-> options[self], stats |-> stats[self]]

\* the fields of one stream after a method has run
Store(self, this) ==
  /\ buffer' = [buffer EXCEPT ![self] = this.buffer]
  /\ flooding' = [flooding EXCEPT ![self] = this.flooding]
  /\ options' = [options EXCEPT ![self] = this.options]
  /\ stats' = [stats EXCEPT ![self] = this.stats]

\* client.bulk( { body: writeBuffer }, callback.bind( this ) )
Bulk(self, bodies) ==
  [k \in 1..Len(bodies) |-> [self |-> self, writeBuffer |-> bodies[k]]]

\* a next callback is invoked: the _write of its stream completes
InvokeNext(r) ==
  /\ writing' = [writing EXCEPT ![r] = FALSE]
  /\ ncalls' = [ncalls EXCEPT ![r] = @ + 1]
  /\ invoked' = {r}

\* this.emit( 'stats', ... ): the observer of the stream sees these events
Emit(self, events) ==
  /\ emittedStats' = events
  /\ reported' = IF events = <<>> THEN reported
                 ELSE [reported EXCEPT ![self] = <<events[Len(events)]>>]

\* this.stats[ record ? 'ok' : 'error' ]++
CountMessage(this, ok) ==
  IF ok THEN [this EXCEPT !.stats.ok = @ + 1] ELSE [this EXCEPT !.stats.error = @ + 1]

\* this.buffer.push( { index: ... }, record.data )
PushCommand(this, record) ==
  [this EXCEPT !.buffer = @ \o <<Descriptor(record), Document(record)>>]

\* _write( chunk, enc, next )
_write(self, chunk) ==
  /\ self \in instances
  /\ ~writing[self]
  /\ ~ended[self]
  /\ last' = Ran("_write", self, chunk, <<>>, NoResult)
  /\ LET p == parseChunk(chunk) IN
       IF p.throws
       THEN /\ writing' = [writing EXCEPT ![self] = TRUE]
            /\ ncalls' = [ncalls EXCEPT ![self] = 0]
            /\ thrown' = [thrown EXCEPT ![self] = TRUE]
            /\ emittedErrors' = <<>>
            /\ Emit(self, <<>>)
            /\ invoked' = {}
            /\ UNCHANGED <<instances, buffer, flooding, options, stats, timeout,
                           resumeFunction, writeBufferTotal, calls, ended>>
       ELSE LET t1 == CountMessage(This(self), p.ok)
                f == IF p.ok
                     THEN flush(PushCommand(t1, p.record), writeBufferTotal, FALSE)
                     ELSE [this |-> t1, writeBufferTotal |-> writeBufferTotal,
                           bulk |-> <<>>, stats |-> <<>>]
            IN /\ Store(self, f.this)
               /\ writeBufferTotal' = f.writeBufferTotal
               /\ calls' = calls \o Bulk(self, f.bulk)
               /\ emittedErrors' = p.errors
               /\ Emit(self, f.stats)
               /\ timeout' = [timeout EXCEPT ![self] = "armed"]
               /\ resumeFunction' = self
               /\ IF ~f.this.flooding
                  THEN /\ writing' = [writing EXCEPT ![self] = FALSE]
                       /\ ncalls' = [ncalls EXCEPT ![self] = 1]
                       /\ invoked' = {self}
                  ELSE /\ writing' = [writing EXCEPT ![self] = TRUE]
                       /\ ncalls' = [ncalls EXCEPT ![self] = 0]
                       /\ invoked' = {}
               /\ UNCHANGED <<instances, thrown, ended>>

\* a forced flush outside _write: the timer callback and the 'end' listener
ForcedFlush(self) ==
  LET f == flush(This(self), writeBufferTotal, TRUE)
  IN /\ Store(self, f.this)
     /\ writeBufferTotal' = f.writeBufferTotal
     /\ calls' = calls \o Bulk(self, f.bulk)
     /\ emittedErrors' = <<>>
     /\ Emit(self, f.stats)
     /\ invoked' = {}
     /\ UNCHANGED <<instances, resumeFunction, writing, ncalls, thrown>>

\* the setTimeout callback of _write: this.flush( true )
OnTimeout(self) ==
  /\ self \in instances
  /\ timeout[self] = "armed"
  /\ timeout' = [timeout EXCEPT ![self] = "fired"]
  /\ last' = Ran("timeout", self, NoChunk, <<>>, NoResult)
  /\ ForcedFlush(self)
  /\ UNCHANGED ended

\* this.on( 'end', this.flush.bind( this, true ) )
OnEnd(self) ==
  /\ self \in instances
  /\ ~ended[self]
  /\ ended' = [ended EXCEPT ![self] = TRUE]
  /\ last' = Ran("end", self, NoChunk, <<>>, NoResult)
  /\ ForcedFlush(self)
  /\ UNCHANGED timeout

\* the two early returns of the bulk callback
MajorError(res) == res.err \/ res.resp # "items"

\* this.stats.error += writeBufferTotal, read from the global when the callback runs
FailedCount(writeBuffer, wbt) == wbt

\* flood control resume
Resume(this) == this.stats.active_requests < this.options.throttle /\ this.flooding


\* a slip: the callback does not count the request as completed
NotCompleted(this) == this

\* this.stats.active_requests--, the first statement of the callback
Completed(this) == [this EXCEPT !.stats.active_requests = @ - 1]

\* the callback of client.bulk for the k-th pending request
BulkCallback(k, res, rnd) ==
  /\ k \in 1..Len(calls)
  /\ LET self == calls[k].self
         writeBuffer == calls[k].writeBuffer
         t0 == Completed(This(self))
     IN /\ calls' = SubSeq(calls, 1, k - 1) \o SubSeq(calls, k + 1, Len(calls))
        /\ last' = Ran("callback", self, NoChunk, writeBuffer, res)
        /\ IF MajorError(res)
           THEN /\ Store(self, [t0 EXCEPT !.stats.error =
                                  @ + FailedCount(writeBuffer, writeBufferTotal)])
                /\ emittedErrors' =
                     <<IndexError(IF res.err THEN "err"
                                  ELSE "invalid resp from es bulk index operation",
                                  NullDocument, <<>>)>>
                /\ Emit(self, <<>>)
                /\ invoked' = {}
                /\ UNCHANGED <<writing, ncalls>>
           ELSE LET v == validateBulkResponse(t0, writeBuffer, res.items, rnd)
                    t1 == [v.this EXCEPT !.flooding = IF Resume(v.this) THEN FALSE ELSE @]
                IN /\ Store(self, t1)
                   /\ emittedErrors' = v.errors
                   /\ Emit(self, <<emitStats(t1.stats)>>)
                   /\ IF Resume(v.this) /\ resumeFunction # NoOp
                      THEN InvokeNext(resumeFunction)
                      ELSE invoked' = {} /\ UNCHANGED <<writing, ncalls>>
        /\ UNCHANGED <<instances, timeout, resumeFunction, writeBufferTotal,
                       thrown, ended>>

----------------------------------------------------------------------------
(* Inputs *)

\* records with every field set
ValidRecords ==
  {JSValue("object", "idx", "typ", "a", "d1"), JSValue("object", "idx", "typ", "b", "d2")}

\* records with some field undefined or empty
InvalidRecords ==
  {JSValue("object", Undefined, "typ", "a", "d1"),
   JSValue("object", "", "typ", "a", "d1"),
   JSValue("object", "idx", Undefined, "a", "d1"),
   JSValue("object", "idx", "typ", Undefined, "d1"),
   JSValue("object", Undefined, Undefined, "a", "d1"),
   JSValue("object", "idx", "", "", "d1")}

\* what a producer may write: objects, a number, JSON texts and a broken text
Chunks ==
  {ChunkOf("value", v) : v \in ValidRecords \cup InvalidRecords \cup {Plain("number")}}
  \cup {ChunkOf("text", v) :
          v \in {JSValue("object", "idx", "typ", "a", "d1"),
                 JSValue("object", "idx", "typ", Undefined, "d1"),
                 Plain("null"), Plain("array"), Plain("string")}}
  \cup {ChunkOf("garbage", Plain("string"))}

\* the status codes a response item may carry; 404 stands for any other code
Codes == {Updated, Created, BadRequest, 404, Unavailable}

\* what client.bulk may answer for a body of n pairs: an error, no response,
\* a response without items, or one status per item
Results(n, codes) ==
  {[err |-> TRUE, resp |-> "undefined", items |-> <<>>],
   [err |-> FALSE, resp |-> "undefined", items |-> <<>>],
   [err |-> FALSE, resp |-> "noitems", items |-> <<>>]}
  \cup {[err |-> FALSE, resp |-> "items", items |-> it] : it \in [1..n -> codes]}

\* the options a stream may be constructed with: [buffer, throttle]
Configs == {[buffer |-> b, throttle |-> t] : b \in {1, 2}, t \in {1, 2, 21}}

----------------------------------------------------------------------------
(* Specifications *)

\* new BufferedBulkStream( client, options ) for every stream of live
Construct(live, configs) ==
  /\ instances = live
  /\ buffer = [s \in Streams |-> <<>>]
  /\ flooding = [s \in Streams |-> FALSE]
  /\ options \in [Streams -> configs]
  /\ \A s \in Streams \ live : options[s] = CHOOSE c \in configs : TRUE
  /\ stats = [s \in Streams |->
               [written |-> 0, inserted |-> 0, ok |-> 0, error |-> 0,
                active_requests |-> 0, retries |-> 0]]
  /\ timeout = [s \in Streams |-> "null"]
  /\ resumeFunction = NoOp
  /\ writeBufferTotal = 0
  /\ calls = <<>>
  /\ writing = [s \in Streams |-> FALSE]
  /\ ncalls = [s \in Streams |-> 0]
  /\ thrown = [s \in Streams |-> FALSE]
  /\ ended = [s \in Streams |-> FALSE]
  /\ emittedErrors = <<>>
  /\ emittedStats = <<>>
  /\ invoked = {}
  /\ reported = [s \in Streams |-> <<>>]
  /\ last = Ran("constructor", 0, NoChunk, <<>>, NoResult)

\* the producer writes a chunk
Submit(maxWrites, chunks) ==
  \E self \in Streams, chunk \in chunks :
    /\ stats[self].ok + stats[self].error < maxWrites
    /\ _write(self, chunk)

\* an inactivity timer fires
Fire == \E self \in Streams : OnTimeout(self)

\* 'end' is emitted on a stream
Drain == \E self \in Streams : OnEnd(self)

\* the cluster answers a pending request
Respond(maxRetries, codes) ==
  \E k \in 1..Len(calls), rnd \in BOOLEAN :
    \E res \in Results(Len(calls[k].writeBuffer) \div 2, codes) :
      /\ stats[calls[k].self].retries
           + Len(responseCodes(res.items, Unavailable)) <= maxRetries
      /\ rnd => /\ ~MajorError(res)
                 /\ ~hasFailures(res.items)
                 /\ options[calls[k].self].throttle < MaxThrottle
      /\ BulkCallback(k, res, rnd)

Init == Construct({1}, Configs)

Next ==
  \/ Submit(MaxWrites, Chunks)
  \/ Fire
  \/ Drain
  \/ Respond(MaxRetries, Codes)

Spec == Init /\ [][Next]_vars

\* Timers fire and client.bulk answers every request.
SpecLive ==
  Init /\ [][Next]_vars /\ WF_vars(Fire) /\ WF_vars(Respond(MaxRetries, Codes))

\* One stream with a batch size of 2 and three submissions.
InitWide == Construct({1}, {[buffer |-> 2, throttle |-> 2], [buffer |-> 2, throttle |-> 21]})

NextWide ==
  \/ Submit(WideWrites, Chunks)
  \/ Fire
  \/ Drain
  \/ Respond(MaxRetries, Codes)

SpecWide == InitWide /\ [][NextWide]_vars

\* Two streams in one process, each sending every pair at once and flooding
\* with one active request.
InitTwo == Construct({1, 2}, {[buffer |-> 1, throttle |-> 1]})

NextTwo ==
  \/ Submit(TwoWrites, Chunks)
  \/ Fire
  \/ Drain
  \/ Respond(MaxRetries, Codes)

SpecTwo == InitTwo /\ [][NextTwo]_vars

\* One stream with a throttle of 24, every pair sent at once, a producer that
\* writes one record over and over and a cluster that answers 503 or fails.
InitDeep == Construct({1}, {[buffer |-> 1, throttle |-> 24]})

NextDeep ==
  \/ Submit(DeepWrites, {ChunkOf("value", JSValue("object", "idx", "typ", "a", "d1"))})
  \/ Fire
  \/ Drain
  \/ Respond(MaxRetries, {Unavailable})

SpecDeep == InitDeep /\ [][NextDeep]_vars

\* One stream constructed with a batch size of 0 (options.buffer set to 0; an
\* options object without buffer behaves alike, undefined * 2 being NaN).
InitZero == Construct({1}, {[buffer |-> 0, throttle |-> 2], [buffer |-> 0, throttle |-> 21]})

SpecZero == InitZero /\ [][Next]_vars

----------------------------------------------------------------------------
(* Intake *)

\* a field is present and non-empty
Present(f) == f # Undefined /\ f # ""

\* the body handed to client.bulk by the step, <<>> when the step sent nothing
Dispatched == IF Len(calls') > Len(calls) THEN calls'[Len(calls')].writeBuffer ELSE <<>>

\* C1: a structured record with index, type and id present and non-empty puts
\* exactly one pair at the tail of the buffer, its descriptor carrying the
\* record's index, type and id and followed by its data (the flush of the same
\* _write may then take a prefix away); any other structured record leaves the
\* buffer as it was and emits exactly one error, naming the first missing field
\* in the order index, type, id.
C1_IntakeAppendsOrRejects ==
  [][(last'.op = "_write" /\ last'.chunk.enc = "value" /\ last'.chunk.v.t = "object") =>
       LET r == last'.chunk.v
           self == last'.self
       IN IF Present(r._index) /\ Present(r._type) /\ Present(r._id)
          THEN /\ Dispatched \o buffer'[self] =
                    buffer[self] \o
                      <<[kind |-> "index", _index |-> r._index, _type |-> r._type,
                         _id |-> r._id, data |-> Undefined],
                        [kind |-> "doc", _index |-> Undefined, _type |-> Undefined,
                         _id |-> Undefined, data |-> r.data]>>
               /\ emittedErrors' = <<>>
          ELSE /\ buffer'[self] = buffer[self]
               /\ calls' = calls
               /\ Len(emittedErrors') = 1
               /\ emittedErrors'[1].message =
                    (IF ~Present(r._index) THEN "invalid index specified"
                     ELSE IF ~Present(r._type) THEN "invalid type specified"
                     ELSE "invalid id specified")
    ]_vars

\* a record was accepted and its pair is the buffer
C1_Witness ==
  /\ last.op = "_write"
  /\ last.chunk = ChunkOf("value", JSValue("object", "idx", "typ", "b", "d2"))
  /\ emittedErrors = <<>>
  /\ Len(buffer[1]) = 2
  /\ buffer[1][1]._id = "b"
  /\ buffer[1][2].data = "d2"

----------------------------------------------------------------------------
(* Flush *)

\* what flush( force ) does to a stream whose buffer is buf when it is entered
FlushContract(self, buf, force) ==
  LET pairs == Len(buf) \div 2
      size == options[self].buffer
      take == IF pairs < size THEN pairs ELSE size
  IN IF pairs < 1 \/ (~force /\ pairs < size)
     THEN /\ buffer'[self] = buf
          /\ stats'[self].written = stats[self].written
          /\ stats'[self].active_requests = stats[self].active_requests
          /\ flooding'[self] = flooding[self]
          /\ calls' = calls
     ELSE /\ calls' = Append(calls, [self |-> self, writeBuffer |-> SubSeq(buf, 1, 2 * take)])
          /\ buffer'[self] = SubSeq(buf, 2 * take + 1, Len(buf))
          /\ stats'[self].written = stats[self].written + take
          /\ stats'[self].active_requests = stats[self].active_requests + 1

\* C2: flush is a no-op when the buffer holds no pair, or when it is not
\* forced and holds fewer pairs than the batch size; otherwise it takes exactly
\* the first min(pairs, batch size) pairs, leaves the rest in order, adds the
\* number taken to written and 1 to active_requests, and sends that prefix.
C2_FlushContract ==
  [][/\ last'.op \in {"timeout", "end"} =>
          FlushContract(last'.self, buffer[last'.self], TRUE)
     /\ (last'.op = "_write" /\ emittedErrors' = <<>> /\ ~thrown'[last'.self]) =>
          FlushContract(last'.self,
                        buffer[last'.self]
                          \o <<Descriptor(last'.chunk.v), Document(last'.chunk.v)>>,
                        FALSE)
    ]_vars

\* a forced flush took a batch and left pairs behind
C2_Witness ==
  /\ last.op = "timeout"
  /\ emittedStats # <<>>
  /\ Len(buffer[last.self]) >= 2
  /\ Len(calls) >= 1

\* C3: after a forced flush, by the timer or by 'end', the buffer is empty.
C3_ForcedFlushDrains ==
  last.op \in {"timeout", "end"} => buffer[last.self] = <<>>

----------------------------------------------------------------------------
(* Classification of a response *)

\* how many items of a response have a status in S
CountIn(items, S) == Cardinality({i \in 1..Len(items) : items[i] \in S})

\* how many of the errors emitted carry this document and this status
ErrorsFor(errors, doc, status) ==
  Cardinality({i \in 1..Len(errors) :
                 errors[i].document = doc /\ errors[i].item = <<status>>})

\* the step is the callback of a request answered without error, with items
Classified == last'.op = "callback" /\ ~last'.res.err /\ last'.res.resp = "items"

\* C4: classifying a well-formed response adds the number of 200/201 items to
\* inserted, the number of 503 items to retries and the number of all other
\* items to error, the three adding up to the size of the batch; one error is
\* emitted for each 400/other item, with that item's document, and none else.
C4_ClassificationCounts ==
  [][Classified =>
       LET self == last'.self
           body == last'.body
           items == last'.res.items
           n == Len(body) \div 2
           good == CountIn(items, {200, 201})
           again == CountIn(items, {503})
           bad == CountIn(items, Codes \ {200, 201, 503})
       IN /\ stats'[self].inserted = stats[self].inserted + good
          /\ stats'[self].retries = stats[self].retries + again
          /\ stats'[self].error = stats[self].error + bad
          /\ good + again + bad = n
          /\ Len(emittedErrors') = bad
          /\ \A i \in 1..n :
               ErrorsFor(emittedErrors', body[2 * i], items[i]) =
                 (IF items[i] \in {200, 201, 503} THEN 0
                  ELSE Cardinality({j \in 1..n : body[2 * j] = body[2 * i]
                                                 /\ items[j] = items[i]}))
    ]_vars

\* a response of two items, one 503 and one rejected, has been classified
C4_Witness ==
  /\ last.op = "callback"
  /\ last.res.items = <<503, 400>>
  /\ Len(emittedErrors) = 1
  /\ emittedErrors[1].document.data = "d2"
  /\ stats[last.self].retries = 1
  /\ stats[last.self].error = 1
  /\ stats[last.self].inserted = 0

\* the pairs of the 503 items of a response, from position i on
RECURSIVE Requeued(_, _, _)
Requeued(body, items, i) ==
  IF i > Len(items) THEN <<>>
  ELSE (IF items[i] = 503 THEN <<body[2 * i - 1], body[2 * i]>> ELSE <<>>)
       \o Requeued(body, items, i + 1)

\* C5: after a well-formed response is classified the buffer is the buffer
\* before it followed by the original pairs of the 503 items, in ascending
\* position; no pair of an item with another status is pushed back.
C5_RetryRequeue ==
  [][Classified =>
       buffer'[last'.self] =
         buffer[last'.self] \o Requeued(last'.body, last'.res.items, 1)
    ]_vars

\* both items of a batch were answered 503 and are back in their order
C5_Witness ==
  /\ last.op = "callback"
  /\ last.res.items = <<503, 503>>
  /\ Len(buffer[last.self]) = 4
  /\ buffer[last.self][1]._id = "a"
  /\ buffer[last.self][2].data = "d1"
  /\ buffer[last.self][3]._id = "b"
  /\ buffer[last.self][4].data = "d2"

\* C6: when the call fails, or answers without a list of items, error grows by
\* exactly the number of pairs of that request, exactly one error is emitted,
\* and the buffer, inserted, retries and the throttle stay as they were.
C6_TransportFailure ==
  [][(last'.op = "callback" /\ (last'.res.err \/ last'.res.resp # "items")) =>
       LET self == last'.self IN
         /\ stats'[self].error = stats[self].error + Len(last'.body) \div 2
         /\ Len(emittedErrors') = 1
         /\ buffer'[self] = buffer[self]
         /\ stats'[self].inserted = stats[self].inserted
         /\ stats'[self].retries = stats[self].retries
         /\ options'[self] = options[self]
    ]_vars

----------------------------------------------------------------------------
(* Backpressure, inactivity, counters *)

\* C7: the next callback of a submission is never invoked while its stream is
\* flooding.
C7_NoAckWhileFlooding == \A s \in invoked : ~flooding[s]

\* C8: with timers firing and every request answered, pairs in the buffer do
\* not stay there: a buffer that holds pairs is emptied again.
C8_BufferedPairsLeave == \A s \in Streams : (buffer[s] # <<>>) ~> (buffer[s] = <<>>)

\* C9: queued, as the stats event computes it from the counters, is never
\* negative, in any state and in any event emitted.
C9_QueuedNonNegative ==
  /\ \A s \in instances : emitStats(stats[s]).queued >= 0
  /\ \A i \in 1..Len(emittedStats) : emittedStats[i].queued >= 0

\* C10: active_requests is never negative, and whenever it exceeds the
\* throttle the stream is flooding.
C10_ActiveWithinThrottleOrFlooding ==
  \A s \in instances :
    /\ stats[s].active_requests >= 0
    /\ stats[s].active_requests > options[s].throttle => flooding[s]

----------------------------------------------------------------------------
(* Intake errors *)

\* C11: no submission throws, whatever the chunk is: a _write either puts one
\* pair into the buffer and emits no error, or emits exactly one error and
\* leaves the buffer and the requests as they were.
C11_IntakeNeverThrows ==
  [][last'.op = "_write" =>
       LET self == last'.self IN
         /\ ~thrown'[self]
         /\ \/ /\ emittedErrors' = <<>>
               /\ Len(Dispatched \o buffer'[self]) = Len(buffer[self]) + 2
            \/ /\ Len(emittedErrors') = 1
               /\ buffer'[self] = buffer[self]
               /\ calls' = calls
    ]_vars

\* C12: a rejected record leaves the buffer, active_requests, the throttle,
\* flooding and every value the stats event reports as they were.
C12_RejectedRecordIsLocal ==
  [][(last'.op = "_write" /\ emittedErrors' # <<>>) =>
       LET self == last'.self IN
         /\ buffer'[self] = buffer[self]
         /\ stats'[self].active_requests = stats[self].active_requests
         /\ options'[self] = options[self]
         /\ flooding'[self] = flooding[self]
         /\ emitStats(stats'[self]) = emitStats(stats[self])
    ]_vars

----------------------------------------------------------------------------
(* Stats events *)

\* C13: from one stats event of a stream to its next one, none of written,
\* indexed, errored and retries decreases.
C13_ReportedCountersMonotonic ==
  [][\A s \in Streams :
       (reported[s] # <<>> /\ reported'[s] # <<>>) =>
         /\ reported'[s][1].written >= reported[s][1].written
         /\ reported'[s][1].indexed >= reported[s][1].indexed
         /\ reported'[s][1].errored >= reported[s][1].errored
         /\ reported'[s][1].retries >= reported[s][1].retries
    ]_vars

----------------------------------------------------------------------------
(* Flood control *)

\* C14: whenever a request completes, with or without an error, on a stream
\* that was flooding and now has fewer active requests than the throttle,
\* flooding is cleared and no submission of the stream is left waiting.
C14_FloodReleaseOnEveryCompletion ==
  [][(/\ last'.op = "callback"
      /\ flooding[last'.self]
      /\ stats'[last'.self].active_requests < options'[last'.self].throttle) =>
       /\ ~flooding'[last'.self]
       /\ ~writing'[last'.self]
    ]_vars

\* C15: the next callback of a submission is invoked at most once.
C15_NextInvokedAtMostOnce == \A s \in Streams : ncalls[s] <= 1

\* C16: the number of active requests of a stream never exceeds its throttle.
C16_ActiveWithinThrottle ==
  \A s \in instances : stats[s].active_requests <= options[s].throttle

\* the requests of a stream whose callback has not run yet
Pending(s) == {k \in 1..Len(calls) : calls[k].self = s}

\* C17: active_requests of a stream is the number of its requests whose
\* callback has not run yet, and so 0 when all of them have completed.
C17_ActiveCountsPending ==
  \A s \in Streams : stats[s].active_requests = Cardinality(Pending(s))

\* of two requests sent one has completed, by an error or by an answer
C17_Witness ==
  /\ last.op = "callback"
  /\ stats[1].written = 2
  /\ Len(calls) = 1
  /\ stats[1].active_requests = 1

\* C18: the throttle changes only when a well-formed response is classified;
\* a response with a 503 item makes it max(20, throttle - 2), which is no
\* increase; one without makes it stay or grow by exactly 1; after the
\* adjustment it is at least 20.
C18_AdaptiveCeilingStep ==
  [][IF Classified
     THEN LET self == last'.self
              items == last'.res.items
              before == options[self].throttle
              after == options'[self].throttle
          IN /\ IF \E i \in 1..Len(items) : items[i] = 503
                THEN /\ after = (IF before - 2 < 20 THEN 20 ELSE before - 2)
                     /\ after <= before
                ELSE after \in {before, before + 1}
             /\ after >= 20
     ELSE options' = options
    ]_vars

----------------------------------------------------------------------------
(* Pairs and instances *)

\* a sequence of whole pairs: descriptor, document, descriptor, document, ...
WholePairs(seq) ==
  /\ Len(seq) % 2 = 0
  /\ \A i \in 1..Len(seq) : seq[i].kind = (IF i % 2 = 1 THEN "index" ELSE "doc")

\* C19: the buffer is always a sequence of whole pairs, and every body handed
\* to client.bulk is a non-empty sequence of whole pairs, of at most as many
\* pairs as the batch size.
C19_PairAlignment ==
  /\ \A s \in Streams : WholePairs(buffer[s])
  /\ \A k \in 1..Len(calls) :
       /\ calls[k].writeBuffer # <<>>
       /\ WholePairs(calls[k].writeBuffer)
       /\ Len(calls[k].writeBuffer) <= 2 * options[calls[k].self].buffer

\* C20: the callback of a request invokes no next callback but one of its own
\* stream.
C20_InstanceIsolation ==
  [][last'.op = "callback" => invoked' \subseteq {last'.self}]_vars

====
